---- MODULE Spec2Model ----
(***************************************************************************)
(* A model of the BLS client of helpers/bls.py and of the HTTP session     *)
(* factory of helpers/web.py.                                              *)
(*                                                                         *)
(* Python values are modelled as follows.  None is the record              *)
(* [none |-> TRUE]; an int n is [int |-> n]; a str holding decimal digits  *)
(* is [str |-> <<"2","0","2","5">>] (a sequence of characters), so that    *)
(* str() and int() are real conversions.  A dict is a function whose       *)
(* domain is its set of keys.  A raised exception is [raise |-> name].     *)
(***************************************************************************)
EXTENDS Integers, Sequences, FiniteSets, TLC

VARIABLES now,        \* the calendar year datetime.now() reports
          manager,    \* the SessionManager constructed, or its error
          session,    \* the session manager.create_session() returned
          reply,      \* the last request made through `session`
          bls,        \* the BLS client constructed, or None
          call,       \* the arguments of the last get_series call
          asked,      \* the calendar year in which that call was made
          wire,       \* the JSON bodies that call posted, in order
          attempts,   \* the HTTP attempts that call caused
          got,        \* the response session.post returned to that call
          ret         \* what that call returned or raised

vars == <<now, manager, session, reply, bls, call, asked, wire, attempts, got,
          ret>>

\* ------------------------------------------------------------------ bounds
FirstYear       == 2025  \* the calendar year a run starts in
MaxYearsElapsed == 1     \* calendar years that may pass during a run
MaxRetry        == 3     \* largest retry count given to SessionManager
MaxK            == 4     \* largest number of leading transient answers
MaxIds          == 2     \* longest series_list short of the 50 limit
MaxPayload      == 2     \* most series in a response payload

\* --------------------------------------------------------- Python values
None == [none |-> TRUE]
IsNone(v) == "none" \in DOMAIN v
PyInt(n) == [int |-> n]
PyStr(s) == [str |-> s]

DigitChar(d) == <<"0", "1", "2", "3", "4", "5", "6", "7", "8", "9">>[d + 1]
DigitVal(c) == CHOOSE d \in 0..9 : DigitChar(d) = c

RECURSIVE Digits(_)
Digits(n) == IF n < 10 THEN <<DigitChar(n)>>
             ELSE Append(Digits(n \div 10), DigitChar(n % 10))

RECURSIVE IntOfDigits(_)
IntOfDigits(s) == IF s = <<>> THEN 0
                  ELSE 10 * IntOfDigits(SubSeq(s, 1, Len(s) - 1)) + DigitVal(s[Len(s)])

\* str(v): the decimal rendering of an int, a str unchanged
Str(v) == IF "int" \in DOMAIN v THEN PyStr(Digits(v.int)) ELSE v

\* int(s) of a str of digits
IntOf(v) == IF "str" \in DOMAIN v THEN PyInt(IntOfDigits(v.str)) ELSE v

\* datetime.strftime(datetime.now(), "%Y")
StrftimeYear(year) == PyStr(Digits(year))

\* dict.get(key, default)
Get(d, k, default) == IF k \in DOMAIN d THEN d[k] ELSE default

\* ----------------------------------------------------------------- web.py
DEFAULT_TIMEOUT == 5
DEFAULT_RETRIES == 3
DEFAULT_STATUS_CODES == {403, 413, 429, 500, 502, 503, 504}
DEFAULT_HTTP_METHODS == {"GET", "POST", "PUT", "DELETE", "HEAD"}

\* SessionManager._validate_params: the error it raises, or None (timeout
\* and retry are drawn from the integers, so the isinstance tests pass)
ValidateParams(timeout, retry) ==
    IF timeout <= 0 THEN [raise |-> "SessionConfigError"]
    ELSE IF retry < 0 THEN [raise |-> "SessionConfigError"]
    ELSE None

\* SessionManager.__init__; an empty set is falsy, as None is
NewManager(timeout, retry, status_codes, http_methods) ==
    IF ~IsNone(ValidateParams(timeout, retry)) THEN ValidateParams(timeout, retry)
    ELSE [timeout      |-> timeout,
          retry        |-> retry,
          status_codes |-> IF status_codes = {} THEN DEFAULT_STATUS_CODES
                           ELSE status_codes,
          http_methods |-> IF http_methods = {} THEN DEFAULT_HTTP_METHODS
                           ELSE http_methods]

\* requests.Session(): no retries on its adapters, no hooks, and
\* Session.request is the class's own method
PlainSession ==
    [request |-> "Session.request",
     adapter |-> [total |-> 0, allowed_methods |-> {}, status_forcelist |-> {}],
     hooks   |-> {}]

\* SessionManager.create_session: the instance attribute `request` becomes a
\* lambda that calls the module-level requests.request; the retrying adapter
\* is mounted and the raise_for_status hook is set on the session object
CreatedSession(self) ==
    [timeout |-> self.timeout,
     request |-> "requests.request",
     adapter |-> [total            |-> self.retry,
                  allowed_methods  |-> self.http_methods,
                  status_forcelist |-> self.status_codes],
     hooks   |-> {"raise_for_status"}]

\* The transport answers attempt i of a request: `k` leading answers of
\* transient_status, then final_status for ever
Answer(script, i) == IF i <= script.k THEN script.transient_status
                     ELSE script.final_status

\* urllib3's Retry.is_retry for a status answer
IsRetry(adapter, method, status) ==
    /\ method \in adapter.allowed_methods
    /\ status \in adapter.status_forcelist

\* The adapter's urlopen loop: attempt i with `total` retries left.  An
\* exhausted budget on a forced status raises (raise_on_status is on).
RECURSIVE Urlopen(_, _, _, _, _)
Urlopen(adapter, total, method, script, i) ==
    IF IsRetry(adapter, method, Answer(script, i))
    THEN IF total - 1 < 0
         THEN [attempts |-> i, outcome |-> [raise |-> "RetryError"]]
         ELSE Urlopen(adapter, total - 1, method, script, i + 1)
    ELSE [attempts |-> i, outcome |-> [response |-> Answer(script, i)]]

\* Response.raise_for_status raises for 4xx and 5xx
RaiseForStatus(status) == 400 <= status /\ status < 600

\* Session.request of session s: its mounted adapter sends, then its
\* response hooks run
BoundRequest(s, method, script) ==
    LET sent == Urlopen(s.adapter, s.adapter.total, method, script, 1)
    IN IF /\ "response" \in DOMAIN sent.outcome
          /\ "raise_for_status" \in s.hooks
          /\ RaiseForStatus(sent.outcome.response)
       THEN [attempts |-> sent.attempts, outcome |-> [raise |-> "HTTPError"]]
       ELSE sent

\* requests.request(method, url, **kwargs): a fresh Session sends
ApiRequest(method, script) == BoundRequest(PlainSession, method, script)

\* session.request(...), and so session.get / post / put / delete / head,
\* which all call self.request
SessionRequest(s, method, script) ==
    IF s.request = "requests.request" THEN ApiRequest(method, script)
    ELSE BoundRequest(s, method, script)

Is2xx(status) == 200 <= status /\ status < 300

\* ----------------------------------------------------------------- bls.py
MaxSeriesPerQuery == 50

\* BLS.__init__: the default years are computed here, once
NewBLS(api_key, year) ==
    [session    |-> CreatedSession(NewManager(DEFAULT_TIMEOUT, DEFAULT_RETRIES, {}, {})),
     api_key    |-> api_key,
     start_year |-> Str(PyInt(IntOf(StrftimeYear(year)).int
                              - (IF api_key = "" THEN 9 ELSE 19))),
     end_year   |-> Str(IntOf(StrftimeYear(year)))]

\* Mutant: the limit test written with >= instead of >
TooManySeriesInclusive(series_list) == Len(series_list) >= MaxSeriesPerQuery

\* len(series_list) > 50
TooManySeries(series_list) == Len(series_list) > MaxSeriesPerQuery

\* Mutant: the caller's year is dropped in favour of the default
ResolveYearDefaulted(given, default) == default

\* start_year / end_year as get_series resolves them
ResolveYear(given, default) == IF IsNone(given) THEN default ELSE Str(given)

\* Mutant: the flags are not reset when there is no registration key
ResolveFlagsKeyUnchecked(self, a) ==
    LET forced == a.all_optional_params /\ self.api_key # ""
    IN [catalog        |-> IF forced THEN TRUE ELSE a.catalog,
        calculations   |-> IF forced THEN TRUE ELSE a.calculations,
        annual_average |-> IF forced THEN TRUE ELSE a.annual_average,
        aspects        |-> IF forced THEN TRUE ELSE a.aspects]

\* The four optional flags after the all_optional_params and api_key tests
ResolveFlags(self, a) ==
    LET forced == a.all_optional_params /\ self.api_key # ""
        first  == [catalog        |-> IF forced THEN TRUE ELSE a.catalog,
                   calculations   |-> IF forced THEN TRUE ELSE a.calculations,
                   annual_average |-> IF forced THEN TRUE ELSE a.annual_average,
                   aspects        |-> IF forced THEN TRUE ELSE a.aspects]
    IN IF self.api_key = ""
       THEN [catalog |-> FALSE, calculations |-> FALSE,
             annual_average |-> FALSE, aspects |-> FALSE]
       ELSE first

\* The request body `data`
RequestData(self, a) ==
    LET f == ResolveFlags(self, a)
    IN [catalog         |-> f.catalog,
        calculations    |-> f.calculations,
        aspects         |-> f.aspects,
        seriesid        |-> a.series_list,
        startyear       |-> ResolveYear(a.start_year, self.start_year),
        endyear         |-> ResolveYear(a.end_year, self.end_year),
        annualaverage   |-> f.annual_average,
        registrationkey |-> self.api_key]

\* The JSON value of a series' "data" key is tagged with its JSON type:
\* [list |-> <<entry, ...>>] for an array, [dict |-> d] for an object.
EmptyDict == [dict |-> <<>>]

\* `for data in series.get("data", {})`: an array yields its entries, an
\* object yields its keys, which are strs (every key of a non-empty object
\* fails the same way below, so their order is immaterial)
RECURSIVE KeySeq(_)
KeySeq(keys) == IF keys = {} THEN <<>>
                ELSE LET k == CHOOSE x \in keys : TRUE
                     IN <<[key |-> k]>> \o KeySeq(keys \ {k})

Items(v) == IF "list" \in DOMAIN v
            THEN [i \in 1..Len(v.list) |-> [entry |-> v.list[i]]]
            ELSE KeySeq(DOMAIN v.dict)

\* The exception the record expression raises for one (series, item), or ""
\* when it raises none; the dict display is evaluated top to bottom
RecordRaises(series, item, f) ==
    IF "seriesID" \notin DOMAIN series THEN "KeyError"
    ELSE IF "key" \in DOMAIN item THEN "AttributeError"          \* str.get
    ELSE IF f.aspects /\ "data" \notin DOMAIN series
         THEN "AttributeError"                                   \* None.get
    ELSE IF f.aspects /\ "list" \in DOMAIN series.data
         THEN "AttributeError"                                   \* list.get
    ELSE IF f.calculations /\ "list" \in DOMAIN Get(series, "data", EmptyDict)
         THEN "AttributeError"                                   \* list.get
    ELSE ""

\* {f"{calc_type}_{period}": value ...}: the keys are (calc_type, period)
CalculationFields(calcs) ==
    LET keys == UNION {{<<t, p>> : p \in DOMAIN calcs[t]} : t \in DOMAIN calcs}
    IN [name \in {k[1] \o "_" \o k[2] : k \in keys} |->
           LET k == CHOOSE x \in keys : x[1] \o "_" \o x[2] = name
           IN calcs[k[1]][k[2]]]

\* The record built for one (series, entry) when nothing raises
Record(series, item, f) ==
    LET data == item.entry
        cat  == Get(series, "catalog", <<>>)
        base == [year      |-> Get(data, "year", None),
                 series_id |-> series.seriesID,
                 period    |-> Get(data, "periodName", None),
                 value     |-> Get(data, "value", None),
                 footnotes |-> IF Get(data, "footnotes", <<>>) # <<>>
                               THEN [list |-> data.footnotes] ELSE [str |-> ""]]
        catalog == IF f.catalog
                   THEN [series_title      |-> Get(cat, "series_title", None),
                         seasonality       |-> Get(cat, "seasonality", None),
                         measure_data_type |-> Get(cat, "measure_data_type", None),
                         commerce_industry |-> Get(cat, "commerce_industry", None),
                         commerce_sector   |-> Get(cat, "commerce_sector", None)]
                   ELSE <<>>
        aspects == IF f.aspects
                   THEN [aspects |-> Get(series.data.dict, "aspects", None)]
                   ELSE <<>>
        calcs   == IF f.calculations
                   THEN CalculationFields(
                            Get(Get(series, "data", EmptyDict).dict, "calculations", <<>>))
                   ELSE <<>>
    IN base @@ catalog @@ aspects @@ calcs

\* The (series, item) pairs of the comprehension, series first
RECURSIVE Pairs(_)
Pairs(bls_series) ==
    IF bls_series = <<>> THEN <<>>
    ELSE LET series == Head(bls_series)
             items  == Items(Get(series, "data", EmptyDict))
         IN [i \in 1..Len(items) |-> [series |-> series, item |-> items[i]]]
            \o Pairs(Tail(bls_series))

\* The list comprehension: the first pair that raises ends it
Flatten(bls_series, f) ==
    LET pairs == Pairs(bls_series)
        bad   == {i \in 1..Len(pairs) :
                     RecordRaises(pairs[i].series, pairs[i].item, f) # ""}
    IN IF bad # {}
       THEN LET i == CHOOSE j \in bad : \A m \in bad : j <= m
            IN [raise |-> RecordRaises(pairs[i].series, pairs[i].item, f)]
       ELSE [list |-> [i \in 1..Len(pairs) |->
                          Record(pairs[i].series, pairs[i].item, f)]]

\* Mutant: the payload is printed but never assigned to series_data
NotProcessedDropped(json_data) ==
    IF "message" \notin DOMAIN json_data THEN [raise |-> "KeyError"]
    ELSE [str |-> ""]

\* The REQUEST_NOT_PROCESSED branch: both keys are printed, then the payload
\* is the result
NotProcessed(json_data) ==
    IF "message" \notin DOMAIN json_data THEN [raise |-> "KeyError"]
    ELSE [dict |-> json_data]

\* The REQUEST_SUCCEEDED branch
Succeeded(json_data, f) ==
    IF "Results" \notin DOMAIN json_data THEN [raise |-> "KeyError"]
    ELSE IF "series" \notin DOMAIN json_data.Results THEN [raise |-> "KeyError"]
    ELSE Flatten(json_data.Results.series, f)

\* The body of the try block; series_data starts as ''
TryBlock(response, f) ==
    IF "invalid" \in DOMAIN response.body THEN [raise |-> "JSONDecodeError"]
    ELSE IF "array" \in DOMAIN response.body THEN [raise |-> "TypeError"]
    ELSE LET json_data == response.body.object
         IN IF "status" \notin DOMAIN json_data THEN [raise |-> "KeyError"]
            ELSE IF json_data.status = "REQUEST_NOT_PROCESSED"
                 THEN NotProcessed(json_data)
            ELSE IF json_data.status = "REQUEST_SUCCEEDED"
                 THEN Succeeded(json_data, f)
            ELSE [str |-> ""]

\* try / bare except: whatever is raised, the response is returned
Normalize(response, f) ==
    IF "raise" \in DOMAIN TryBlock(response, f) THEN [response |-> response]
    ELSE TryBlock(response, f)

\* get_series as a whole: what it posts, the attempts made, what it returns
GetSeriesResult(self, a, script, body) ==
    IF TooManySeries(a.series_list)
    THEN [wire |-> <<>>, attempts |-> 0, got |-> None,
          ret |-> [raise |-> "BLSError"]]
    ELSE LET data == RequestData(self, a)
             sent == SessionRequest(self.session, "POST", script)
             response == [body |-> body, status_code |-> sent.outcome.response]
         IN [wire     |-> <<data>>,
             attempts |-> sent.attempts,
             got      |-> IF "raise" \in DOMAIN sent.outcome THEN None ELSE response,
             ret      |-> IF "raise" \in DOMAIN sent.outcome THEN sent.outcome
                          ELSE IF a.return_raw_response THEN [response |-> response]
                          ELSE Normalize(response, ResolveFlags(self, a))]

\* ------------------------------------------------------------------ inputs
Methods  == {"GET", "POST", "PATCH"}
Scripts  == [k : 0..MaxK, transient_status : {500, 503},
             final_status : {200, 404, 500}]
OkScript == [k |-> 0, transient_status |-> 503, final_status |-> 200]
NotFoundScript == [k |-> 0, transient_status |-> 503, final_status |-> 404]

SeqsUpTo(S, n) == UNION {[1..m -> S] : m \in 0..n}

Ids == {"LNS14000000", "CES0000000001"}
SeriesLists ==
    SeqsUpTo(Ids, MaxIds)
    \cup {[i \in 1..n |-> "LNS14000000"] :
             n \in (MaxSeriesPerQuery - 1)..(MaxSeriesPerQuery + 1)}

StartYears == {None, PyInt(2015), PyStr(Digits(2015))}
EndYears   == {None, PyInt(2020), PyStr(Digits(2020))}

Jan == [year |-> "2024",
        calculations |-> [net_changes |-> [m1 |-> "0.1", m3 |-> "0.2"]],
        aspects |-> <<>>, period |-> "M01", value |-> "4.1",
        footnotes |-> <<"P">>, periodName |-> "January"]
Feb == [year |-> "2024", period |-> "M02", value |-> "3.9",
        periodName |-> "February"]
Mar == [year |-> "2024", period |-> "M03", value |-> "3.8",
        footnotes |-> <<>>, periodName |-> "March"]

Catalog == [series_title |-> "Unemployment Rate", seasonality |-> "S"]

PayloadSeries ==
    {[catalog |-> Catalog, data |-> [list |-> <<Jan, Feb>>],
      seriesID |-> "LNS14000000"],
     [data |-> [list |-> <<Mar>>], seriesID |-> "CES0000000001"],
     [data |-> [list |-> <<>>], seriesID |-> "LAUST06"],
     [seriesID |-> "SMS06"],
     [data |-> [list |-> <<Jan>>]],
     [data |-> [dict |-> [calculations |-> <<>>, aspects |-> "A"]],
      seriesID |-> "LASST06"]}

Succeed(series) == [status |-> "REQUEST_SUCCEEDED",
                    Results |-> [series |-> series], message |-> <<>>]

Objects ==
    {Succeed(l) : l \in SeqsUpTo(PayloadSeries, MaxPayload)}
    \cup {[status |-> "REQUEST_NOT_PROCESSED", message |-> <<"Invalid Series">>],
          [status |-> "REQUEST_NOT_PROCESSED"],
          [status |-> "REQUEST_FAILED", message |-> <<"Try later">>],
          [status |-> "REQUEST_SUCCEEDED", message |-> <<>>],
          [status |-> "REQUEST_SUCCEEDED", Results |-> [note |-> "none"]],
          [message |-> <<"no status">>]}

Bodies == {[invalid |-> TRUE], [array |-> TRUE]} \cup {[object |-> o] : o \in Objects}

OkBody == [object |-> Succeed(<<[data |-> [list |-> <<Jan>>],
                                 seriesID |-> "LNS14000000"]>>)]
FewBodies == {OkBody, [invalid |-> TRUE],
              [object |-> [status |-> "REQUEST_NOT_PROCESSED",
                           message |-> <<"Invalid Series">>]]}

Args(sl, sy, ey, c, k, an, asp, all, raw) ==
    [start_year |-> sy, end_year |-> ey, series_list |-> sl,
     all_optional_params |-> all, catalog |-> c, calculations |-> k,
     annual_average |-> an, aspects |-> asp, return_raw_response |-> raw]

\* ----------------------------------------------------------------- actions
Init ==
    /\ now = FirstYear
    /\ manager = None
    /\ session = None
    /\ reply = None
    /\ bls = None
    /\ call = None
    /\ asked = now
    /\ wire = <<>>
    /\ attempts = 0
    /\ got = None
    /\ ret = None

\* The calendar year advances
Tick ==
    /\ now < FirstYear + MaxYearsElapsed
    /\ now' = now + 1
    /\ UNCHANGED <<manager, session, reply, bls, call, asked, wire, attempts, got, ret>>

\* manager = SessionManager(timeout, retry, status_codes, http_methods)
NewSessionManager ==
    /\ IsNone(manager)
    /\ \E timeout \in {0, DEFAULT_TIMEOUT}, retry \in (-1)..MaxRetry,
          status_codes \in {{}, {503}}, http_methods \in {{}, {"GET"}} :
          manager' = NewManager(timeout, retry, status_codes, http_methods)
    /\ UNCHANGED <<now, session, reply, bls, call, asked, wire, attempts, got, ret>>

\* session = manager.create_session()
CreateSession ==
    /\ "retry" \in DOMAIN manager
    /\ IsNone(session)
    /\ session' = CreatedSession(manager)
    /\ UNCHANGED <<now, manager, reply, bls, call, asked, wire, attempts, got, ret>>

\* session.request(method, url) with the transport following a script
Request ==
    /\ ~IsNone(session)
    /\ \E method \in Methods, script \in Scripts :
          LET sent == SessionRequest(session, method, script)
          IN reply' = [attempts |-> sent.attempts, script |-> script,
                       method |-> method, outcome |-> sent.outcome]
    /\ UNCHANGED <<now, manager, session, bls, call, asked, wire, attempts, got, ret>>

\* bls = BLS(api_key)
Construct ==
    /\ IsNone(bls)
    /\ \E api_key \in {"", "KEY"} : bls' = NewBLS(api_key, now)
    /\ UNCHANGED <<now, manager, session, reply, call, asked, wire, attempts, got, ret>>

\* bls.get_series(...) with the transport following a script and answering
\* its final response with `body`.  get_series reads nothing an earlier call
\* left behind and changes nothing of the client, so a run makes one call, at
\* any point of the client's life.
CanCall == ~IsNone(bls) /\ IsNone(call)

GetSeries(a, script, body) ==
    /\ CanCall
    /\ LET out == GetSeriesResult(bls, a, script, body)
       IN /\ call' = a
          /\ wire' = out.wire
          /\ asked' = now
          /\ attempts' = out.attempts
          /\ got' = out.got
          /\ ret' = out.ret
    /\ UNCHANGED <<now, manager, session, reply, bls>>

\* Calls that vary what is asked for
AskCall ==
    /\ CanCall
    /\ \E sl \in SeriesLists, sy \in StartYears, ey \in EndYears, all \in BOOLEAN :
       GetSeries(Args(sl, sy, ey, FALSE, FALSE, FALSE, FALSE, all, FALSE),
                 OkScript, OkBody)

\* Calls that vary the flags
FlagCall ==
    /\ CanCall
    /\ \E c \in BOOLEAN, k \in BOOLEAN, an \in BOOLEAN, asp \in BOOLEAN,
          all \in BOOLEAN, raw \in BOOLEAN :
       GetSeries(Args(<<"LNS14000000">>, None, None, c, k, an, asp, all, raw),
                 OkScript, OkBody)

\* Calls that vary the payload answered
PayloadCall ==
    /\ CanCall
    /\ \E c \in BOOLEAN, k \in BOOLEAN, asp \in BOOLEAN, all \in BOOLEAN,
          body \in Bodies :
       GetSeries(Args(<<"LNS14000000">>, None, None, c, k, FALSE, asp, all, FALSE),
                 OkScript, body)
       \/ GetSeries(Args(<<"LNS14000000">>, None, None, c, k, FALSE, asp, all, FALSE),
                    NotFoundScript, body)

\* Calls that vary the statuses answered
StatusCall ==
    /\ CanCall
    /\ \E raw \in BOOLEAN, script \in Scripts, body \in FewBodies :
       GetSeries(Args(<<"LNS14000000">>, None, None, FALSE, FALSE, FALSE, FALSE,
                      FALSE, raw),
                 script, body)

Next == Tick \/ Construct \/ FlagCall \/ PayloadCall \/ StatusCall \/ AskCall

Spec == Init /\ [][Next]_vars

SessionNext == NewSessionManager \/ CreateSession \/ Request

SessionSpec == Init /\ [][SessionNext]_vars

\* ------------------------------------------------------------------ claims
Min(a, b) == IF a <= b THEN a ELSE b

Called    == ~IsNone(call)
Posted    == Called /\ wire # <<>>
Answered  == Called /\ ~IsNone(got)
NonRaw    == Answered /\ ~call.return_raw_response
IsObject  == "object" \in DOMAIN got.body
Payload   == got.body.object
Effective == ResolveFlags(bls, call)

\* C1: a request made through a created session never hands a response whose
\* status is outside 2xx back to its caller as a normal result; the same
\* holds of the response get_series obtains from session.post.
C1_NonSuccessNeverReturned ==
    /\ ~IsNone(reply) /\ "response" \in DOMAIN reply.outcome
          => Is2xx(reply.outcome.response)
    /\ Answered => Is2xx(got.status_code)

\* C2: for a retryable method, when the transport answers the first k
\* attempts with a retryable status, the session makes exactly
\* min(k, max_retries) + 1 attempts (k is unbounded when the answer after
\* the first k is retryable too).
C2_AttemptsAreRetriesPlusOne ==
    (/\ ~IsNone(reply)
     /\ reply.method \in session.adapter.allowed_methods
     /\ reply.script.transient_status \in session.adapter.status_forcelist)
    => LET k == IF reply.script.final_status \in session.adapter.status_forcelist
                THEN session.adapter.total ELSE reply.script.k
       IN reply.attempts = Min(k, session.adapter.total) + 1

\* The payload is not one get_series recognises: malformed JSON, no object,
\* no status, a status other than the two known ones, or a known status
\* without the key its branch reads
Unrecognised ==
    \/ ~IsObject
    \/ "status" \notin DOMAIN Payload
    \/ Payload.status \notin {"REQUEST_NOT_PROCESSED", "REQUEST_SUCCEEDED"}
    \/ Payload.status = "REQUEST_NOT_PROCESSED" /\ "message" \notin DOMAIN Payload
    \/ Payload.status = "REQUEST_SUCCEEDED" /\ "Results" \notin DOMAIN Payload
    \/ /\ Payload.status = "REQUEST_SUCCEEDED"
       /\ "Results" \in DOMAIN Payload
       /\ "series" \notin DOMAIN Payload.Results

ReturnedRaw == "response" \in DOMAIN ret /\ ret.response = got

\* C3: in non-raw mode an unrecognised payload makes get_series return the
\* response object itself.
C3_UnrecognisedReturnsResponse ==
    NonRaw /\ Unrecognised => ReturnedRaw

\* A REQUEST_SUCCEEDED payload whose series all carry a seriesID and whose
\* data, where present, is an array of entries
Succeeds ==
    /\ IsObject
    /\ "status" \in DOMAIN Payload /\ Payload.status = "REQUEST_SUCCEEDED"
    /\ "Results" \in DOMAIN Payload /\ "series" \in DOMAIN Payload.Results
    /\ \A i \in 1..Len(Payload.Results.series) :
          LET series == Payload.Results.series[i]
          IN /\ "seriesID" \in DOMAIN series
             /\ "data" \in DOMAIN series => "list" \in DOMAIN series.data

EntriesOf(series) == IF "data" \in DOMAIN series THEN series.data.list ELSE <<>>

\* The number of data entries in the series before position i
RECURSIVE Before(_, _)
Before(all_series, i) ==
    IF i <= 1 THEN 0
    ELSE Before(all_series, i - 1) + Len(EntriesOf(all_series[i - 1]))

\* C4: a REQUEST_SUCCEEDED payload yields, under every combination of flags,
\* a list holding one record per data entry, series by series and entry by
\* entry, each record carrying its series' seriesID.
C4_OneRecordPerEntry ==
    NonRaw /\ Succeeds =>
        LET all_series == Payload.Results.series
            n == Len(all_series)
        IN /\ "list" \in DOMAIN ret
           /\ Len(ret.list) = Before(all_series, n + 1)
           /\ \A i \in 1..n : \A j \in 1..Len(EntriesOf(all_series[i])) :
                 LET rec == ret.list[Before(all_series, i) + j]
                 IN /\ rec.series_id = all_series[i].seriesID
                    /\ rec.year = EntriesOf(all_series[i])[j].year
                    /\ rec.value = EntriesOf(all_series[i])[j].value

HasEntry == \E i \in 1..Len(Payload.Results.series) :
               EntriesOf(Payload.Results.series[i]) # <<>>

\* C5: with a registration key and a REQUEST_SUCCEEDED payload of at least
\* one entry, the result is a list of records; each record has an aspects
\* field when aspects are asked for and a "{type}_{period}" field per
\* calculation of its entry when calculations are asked for.
C5_EnrichedRecords ==
    (NonRaw /\ Succeeds /\ HasEntry /\ bls.api_key # ""
        /\ (Effective.calculations \/ Effective.aspects)) =>
        /\ "list" \in DOMAIN ret
        /\ \A i \in 1..Len(ret.list) :
              /\ Effective.aspects => "aspects" \in DOMAIN ret.list[i]
              /\ Effective.calculations
                    => \A name \in DOMAIN CalculationFields(Jan.calculations) :
                          name \in DOMAIN ret.list[i]

\* C6: the four optional flags posted are all false without a registration
\* key, all true with a key and all_optional_params, and the caller's own
\* arguments otherwise.
C6_FlagsPosted ==
    Posted =>
        LET b == wire[1]
            posted == <<b.catalog, b.calculations, b.annualaverage, b.aspects>>
        IN IF bls.api_key = "" THEN posted = <<FALSE, FALSE, FALSE, FALSE>>
           ELSE IF call.all_optional_params THEN posted = <<TRUE, TRUE, TRUE, TRUE>>
           ELSE posted = <<call.catalog, call.calculations,
                           call.annual_average, call.aspects>>

C6_Witness ==
    /\ Posted /\ bls.api_key = ""
    /\ call.all_optional_params /\ call.catalog /\ ~call.aspects

\* C7: more than 50 series IDs make get_series raise BLSError without any
\* HTTP request; 50 or fewer never raise it.
C7_TooManySeries ==
    Called =>
        IF Len(call.series_list) > 50
        THEN ret = [raise |-> "BLSError"] /\ wire = <<>> /\ attempts = 0
        ELSE ret # [raise |-> "BLSError"]

C7_Witness == Called /\ Len(call.series_list) = 51 /\ "raise" \in DOMAIN ret

IsNotProcessed ==
    /\ NonRaw /\ IsObject
    /\ "status" \in DOMAIN Payload /\ Payload.status = "REQUEST_NOT_PROCESSED"

CarriesPayload ==
    /\ "dict" \in DOMAIN ret
    /\ ret.dict.status = Payload.status
    /\ "message" \in DOMAIN ret.dict
    /\ "message" \in DOMAIN Payload
    /\ ret.dict.message = Payload.message

\* C8 as stated: every REQUEST_NOT_PROCESSED payload comes back as a result
\* carrying the payload's status and message.
C8_NotProcessedAlwaysEchoed == IsNotProcessed => CarriesPayload

\* C8 as amended: a REQUEST_NOT_PROCESSED payload that has a message comes
\* back as a result carrying its status and message; one without a message
\* comes back as the response object itself; neither raises.
C8_NotProcessedEchoed ==
    IsNotProcessed =>
        IF "message" \in DOMAIN Payload THEN CarriesPayload ELSE ReturnedRaw

C8_Witness == IsNotProcessed /\ "message" \in DOMAIN Payload /\ "dict" \in DOMAIN ret

\* C9: with start_year and end_year unset, the body's endyear is the
\* calendar year of the call and its startyear that year less 9 without a
\* registration key and less 19 with one.
C9_DefaultYearsAreCurrent ==
    (Posted /\ IsNone(call.start_year) /\ IsNone(call.end_year)) =>
        /\ wire[1].endyear = PyStr(Digits(asked))
        /\ wire[1].startyear =
              PyStr(Digits(asked - (IF bls.api_key = "" THEN 9 ELSE 19)))

Explicit == Posted /\ ~IsNone(call.start_year) /\ ~IsNone(call.end_year)

\* C10 as stated: with explicit years the body carries the caller's
\* series_ids and the caller's very start_year and end_year values.
C10_ExplicitInputsUnchanged ==
    Explicit =>
        /\ wire[1].seriesid = call.series_list
        /\ wire[1].startyear = call.start_year
        /\ wire[1].endyear = call.end_year

\* The body's year is a str: the caller's own when the caller gave a str,
\* the decimal digits of the caller's int otherwise
CarriesYear(posted, given) ==
    /\ "str" \in DOMAIN posted
    /\ "str" \in DOMAIN given => posted.str = given.str
    /\ "int" \in DOMAIN given => IntOfDigits(posted.str) = given.int

\* C10 as amended: with explicit years the body carries the caller's
\* series_ids unchanged and each year as a string: the caller's string, or
\* the decimal rendering of the caller's integer.
C10_ExplicitInputsCarried ==
    Explicit =>
        /\ wire[1].seriesid = call.series_list
        /\ CarriesYear(wire[1].startyear, call.start_year)
        /\ CarriesYear(wire[1].endyear, call.end_year)

C10_Witness ==
    /\ Explicit /\ "int" \in DOMAIN call.start_year
    /\ "str" \in DOMAIN call.end_year /\ Len(call.series_list) = 2

====
